---- MODULE Spec2Model ----
(***************************************************************************)
(* PDFHighlighter: the processing run of App.py (lexicon compile, the page *)
(* loop with token and phrase matching, the first-seen colour registry,    *)
(* the index aggregation and the index page layout), the session around    *)
(* the run (failed runs, stored result, cache, page range widgets) and the *)
(* run of QuickApp.py.                                                     *)
(*                                                                         *)
(* Text is modelled as sequences of one-character strings, so that         *)
(* lower(), strip(), the stemmer and the page search are computed on the   *)
(* characters and not looked up.                                           *)
(***************************************************************************)
EXTENDS Integers, Sequences, FiniteSets, TLC

VARIABLES
    \* ---- configuration of one run (sidebar widgets, App.py 179-264) ----
    final_configs,      \* sequence of [name, words, rgb], dict insertion order
    use_stemming,
    generate_index,
    index_target_libs,
    show_variants,
    idx_col_count,
    idx_font_size,
    repeat_opacity,     \* in hundredths: 20 is 0.20
    total_pages,        \* len(doc) of the uploaded document
    \* ---- state of the run (App.py 289-545) ----
    pc,
    processed_configs,  \* sequence of compiled lexicons, dict insertion order
    global_seen_items,  \* lexicon name -> set of canonical keys
    index_data_by_lib,  \* lexicon name -> sequence of [origin, variants]
    page_i,             \* 0-based index of the page of the core loop
    page_words,         \* page.get_text("words") of that page
    w_idx,              \* 1-based position of the token loop in page_words
    highlights,         \* the highlight annotations added so far, in order
    doc_len,            \* len(doc): grows with doc.new_page()
    processed_pdf_data, \* st.session_state['processed_pdf_data']
    \* ---- index layout (App.py 424-513) ----
    col_width,          \* [num, den]: the rational num/den
    truncation_limit,
    var_truncation_limit,
    cursor,             \* [col, y, x, page]: the layout cursor
    placed,             \* the texts the last layout step inserted
    section,            \* the section being laid out: [n, open, entries, header],
                        \* the header kept until the first entry is placed
    \* ---- session state and widgets of App.py (27-41, 212-275, 548-611) ----
    uploaded_pdf,       \* uploaded_pdf.name, None without an upload
    processed_file_name,
    p_start,
    p_end,
    p_all,
    error,              \* what st.error showed in the last script run
    \* ---- the variant lines of one index entry (App.py 469-488) ----
    entry_variations,   \* display_variations of the entry
    entry_var_lines,    \* var_lines of the entry
    \* ---- QuickApp.py (147-178) ----
    total_stats         \* lexicon name -> number of highlights

vars == << final_configs, use_stemming, generate_index, index_target_libs,
           show_variants, idx_col_count, idx_font_size, repeat_opacity,
           total_pages, pc, processed_configs, global_seen_items,
           index_data_by_lib, page_i, page_words, w_idx, highlights, doc_len,
           processed_pdf_data, col_width, truncation_limit,
           var_truncation_limit, cursor, placed, section, uploaded_pdf,
           processed_file_name, p_start, p_end, p_all, error,
           entry_variations, entry_var_lines, total_stats >>

configVars == << final_configs, use_stemming, generate_index,
                 index_target_libs, show_variants, idx_col_count,
                 idx_font_size, repeat_opacity, total_pages >>

runVars == << pc, processed_configs, global_seen_items, index_data_by_lib,
              page_i, page_words, w_idx, highlights, doc_len,
              processed_pdf_data >>

layoutVars == << col_width, truncation_limit, var_truncation_limit, cursor,
                 placed, section >>

sessionVars == << processed_file_name, p_start, p_end, p_all, error >>

otherVars == << uploaded_pdf, entry_variations, entry_var_lines,
               total_stats >>

None == "None"

\* the None of processed_pdf_data: no document, no page
NoData == [pages |-> 0, annots |-> << >>]

(***************************************************************************)
(* Text: str.lower, str.strip, the substring test, string order.           *)
(***************************************************************************)
UpperAlpha == << "A","B","C","D","E","F","G","H","I","J","K","L","M",
                 "N","O","P","Q","R","S","T","U","V","W","X","Y","Z" >>

LowerAlpha == << "a","b","c","d","e","f","g","h","i","j","k","l","m",
                 "n","o","p","q","r","s","t","u","v","w","x","y","z" >>

\* The characters of the model in code point order (what sorted() compares).
CodePoints == << " ", "(", ")", "," >> \o UpperAlpha \o LowerAlpha

Ord(c) == CHOOSE k \in 1..Len(CodePoints) : CodePoints[k] = c

LowerChar(c) ==
    IF \E k \in 1..Len(UpperAlpha) : UpperAlpha[k] = c
    THEN LowerAlpha[CHOOSE k \in 1..Len(UpperAlpha) : UpperAlpha[k] = c]
    ELSE c

Lower(s) == [k \in 1..Len(s) |-> LowerChar(s[k])]

RECURSIVE LStrip(_)
LStrip(s) == IF s # << >> /\ Head(s) = " " THEN LStrip(Tail(s)) ELSE s

RECURSIVE RStrip(_)
RStrip(s) ==
    IF s # << >> /\ s[Len(s)] = " " THEN RStrip(SubSeq(s, 1, Len(s) - 1))
    ELSE s

Strip(s) == RStrip(LStrip(s))

HasSpace(s) == \E k \in 1..Len(s) : s[k] = " "

\* a < b as Python compares two strings
RECURSIVE StrLess(_, _)
StrLess(a, b) ==
    IF b = << >> THEN FALSE
    ELSE IF a = << >> THEN TRUE
    ELSE IF Head(a) # Head(b) THEN Ord(Head(a)) < Ord(Head(b))
    ELSE StrLess(Tail(a), Tail(b))

EndsWith(s, suf) ==
    /\ Len(s) >= Len(suf)
    /\ SubSeq(s, Len(s) - Len(suf) + 1, Len(s)) = suf

DropLast(s, n) == SubSeq(s, 1, Len(s) - n)

(***************************************************************************)
(* stemmer.stem: the English Snowball stemmer of nltk, an external         *)
(* library. The model computes its steps 1a and 1b (plural and -ed/-ing    *)
(* removal with undoubling), which decide the words of the model:          *)
(* running -> run, runs -> run, cats -> cat, learning -> learn, while      *)
(* scatter, ran, cat and run are left alone.                               *)
(***************************************************************************)
IsVowel(c) == c \in {"a", "e", "i", "o", "u", "y"}

HasVowel(s) == \E k \in 1..Len(s) : IsVowel(s[k])

Step1a(s) ==
    IF EndsWith(s, <<"s","s","e","s">>) THEN DropLast(s, 2)
    ELSE IF EndsWith(s, <<"s","s">>) \/ EndsWith(s, <<"u","s">>) THEN s
    ELSE IF EndsWith(s, <<"s">>) /\ HasVowel(DropLast(s, 2)) THEN DropLast(s, 1)
    ELSE s

Undouble(s) ==
    IF /\ Len(s) >= 2
       /\ s[Len(s)] = s[Len(s) - 1]
       /\ s[Len(s)] \in {"b", "d", "f", "g", "m", "n", "p", "r", "t"}
    THEN DropLast(s, 1)
    ELSE s

Step1b(s) ==
    IF EndsWith(s, <<"i","n","g">>) /\ HasVowel(DropLast(s, 3))
    THEN Undouble(DropLast(s, 3))
    ELSE IF EndsWith(s, <<"e","d">>) /\ HasVowel(DropLast(s, 2))
    THEN Undouble(DropLast(s, 2))
    ELSE s

Stem(s) == IF Len(s) <= 2 THEN s ELSE Step1b(Step1a(s))

(***************************************************************************)
(* page.search_for(needle, quads=True) of PyMuPDF, an external library:    *)
(* a case-insensitive search of the literal needle in the page's text,     *)
(* one hit per occurrence, left to right. The page text is the words of    *)
(* the page joined by single spaces; a hit is the 1-based offset of its    *)
(* first character.                                                        *)
(***************************************************************************)
RECURSIVE PageText(_)
PageText(words) ==
    IF words = << >> THEN << >>
    ELSE IF Len(words) = 1 THEN words[1]
    ELSE words[1] \o << " " >> \o PageText(Tail(words))

HitAt(text, needle, p) ==
    /\ p + Len(needle) - 1 <= Len(text)
    /\ Lower(SubSeq(text, p, p + Len(needle) - 1)) = Lower(needle)

RECURSIVE SearchFrom(_, _, _)
SearchFrom(text, needle, p) ==
    IF needle = << >> \/ p + Len(needle) - 1 > Len(text) THEN << >>
    ELSE IF HitAt(text, needle, p)
    THEN << p >> \o SearchFrom(text, needle, p + Len(needle))
    ELSE SearchFrom(text, needle, p + 1)

SearchFor(words, needle) == SearchFrom(PageText(words), needle, 1)

\* the literal text of the page under a hit
HitText(words, needle, p) == SubSeq(PageText(words), p, p + Len(needle) - 1)

(***************************************************************************)
(* Colours. A channel is a number of 1/ColorDen: hex_to_rgb gives k/255    *)
(* for a byte k, the opacity widgets give hundredths.                      *)
(***************************************************************************)
ColorDen == 255 * 100

\* hex_to_rgb, on the three bytes of the hex string
hex_to_rgb(bytes) == [c \in 1..3 |-> bytes[c] * 100]

\* factor in hundredths
get_lighter_color_bug(rgb, factor) ==
    [c \in 1..3 |-> rgb[c] + (rgb[c] * factor) \div 100]

get_lighter_color(rgb, factor) ==
    [c \in 1..3 |-> rgb[c] + ((ColorDen - rgb[c]) * factor) \div 100]

(***************************************************************************)
(* Lexicon compile (App.py 309-343).                                       *)
(***************************************************************************)
MapPut(m, k, v) == [x \in (DOMAIN m) \cup {k} |-> IF x = k THEN v ELSE m[x]]

EmptyMap == [x \in {} |-> None]

\* dict.get(k)
MapGet(m, k) == IF k \in DOMAIN m THEN m[k] ELSE None

\* stem_to_origin_map[stem_w] = clean_w
StemMapPut_first(m, k, v) == IF k \in DOMAIN m THEN m ELSE MapPut(m, k, v)

StemMapPut(m, k, v) == MapPut(m, k, v)

\* one round of "for w in words_list"
CompileWord(acc, w, stemming) ==
    LET clean_w == Strip(w)
        lower_w == Lower(clean_w)
        stem_w  == Stem(lower_w)
    IN  IF HasSpace(clean_w)
        THEN [acc EXCEPT !.phrases = Append(@, clean_w)]
        ELSE LET a1 == [acc EXCEPT !.singles_exact = @ \cup {lower_w},
                                   !.exact_map = MapPut(@, lower_w, clean_w)]
             IN  IF stemming
                 THEN [a1 EXCEPT !.singles_stems = @ \cup {stem_w},
                                 !.stem_map = StemMapPut(@, stem_w, clean_w)]
                 ELSE a1

RECURSIVE CompileWords(_, _, _)
CompileWords(words_list, acc, stemming) ==
    IF words_list = << >> THEN acc
    ELSE CompileWords(Tail(words_list),
                      CompileWord(acc, Head(words_list), stemming), stemming)

CompileLexicon(config, stemming, whiteness_factor) ==
    LET acc0 == [ name          |-> config.name,
                  singles_stems |-> {},
                  singles_exact |-> {},
                  phrases       |-> << >>,
                  base_color    |-> config.rgb,
                  light_color   |-> get_lighter_color(config.rgb, whiteness_factor),
                  stem_map      |-> EmptyMap,
                  exact_map     |-> EmptyMap ]
    IN  CompileWords(config.words, acc0, stemming)

LibNames == { final_configs[k].name : k \in 1..Len(final_configs) }

(***************************************************************************)
(* The token loop body for one lexicon (App.py 362-393). st is the part of *)
(* the run state the loop writes: [seen, index, hl].                       *)
(***************************************************************************)
\* index_data_by_lib[lib_name][origin].add(surface), keys in insertion order
IndexAdd(entries, origin, surface) ==
    IF \E k \in 1..Len(entries) : entries[k].origin = origin
    THEN [k \in 1..Len(entries) |->
            IF entries[k].origin = origin
            THEN [entries[k] EXCEPT !.variants = @ \cup {surface}]
            ELSE entries[k]]
    ELSE Append(entries, [origin |-> origin, variants |-> {surface}])

\* "if origin_word:" is false for None and for the empty string
Truthy(origin_word) == origin_word # None /\ origin_word # << >>

\* the colour choice: TRUE when the key takes the base colour
FirstSeen_never(seen, key) == FALSE

FirstSeen(seen, key) == key \notin seen

\* the membership test of the exact branch
ExactMatch_substring(p_cfg, current_text_lower) ==
    \E t \in p_cfg.singles_exact :
        \E p \in 1..Len(current_text_lower) : HitAt(current_text_lower, t, p)

ExactMatch(p_cfg, current_text_lower) ==
    current_text_lower \in p_cfg.singles_exact

\* the membership test of the stemming branch
StemMatch_exact(p_cfg, current_text_lower) ==
    current_text_lower \in p_cfg.singles_stems

StemMatch(p_cfg, current_text_lower) ==
    Stem(current_text_lower) \in p_cfg.singles_stems

\* a registry of seen keys that the lexicons share
Emit_sharedSeen(st, p_cfg, kind, at, key, origin, surface, text, record) ==
    LET lib   == p_cfg.name
        first == key \notin UNION { st.seen[n] : n \in DOMAIN st.seen }
        color == IF first THEN p_cfg.base_color ELSE p_cfg.light_color
    IN  [ seen  |-> IF first THEN [st.seen EXCEPT ![lib] = @ \cup {key}]
                    ELSE st.seen,
          index |-> IF record
                    THEN [st.index EXCEPT ![lib] = IndexAdd(@, origin, surface)]
                    ELSE st.index,
          hl    |-> Append(st.hl, [ page   |-> page_i,
                                    kind   |-> kind,
                                    at     |-> at,
                                    lib    |-> lib,
                                    key    |-> key,
                                    origin |-> origin,
                                    text   |-> text,
                                    first  |-> first,
                                    color  |-> color ]) ]

Emit(st, p_cfg, kind, at, key, origin, surface, text, record) ==
    LET lib   == p_cfg.name
        first == FirstSeen(st.seen[lib], key)
        color == IF first THEN p_cfg.base_color ELSE p_cfg.light_color
    IN  [ seen  |-> IF first THEN [st.seen EXCEPT ![lib] = @ \cup {key}]
                    ELSE st.seen,
          index |-> IF record
                    THEN [st.index EXCEPT ![lib] = IndexAdd(@, origin, surface)]
                    ELSE st.index,
          hl    |-> Append(st.hl, [ page   |-> page_i,
                                    kind   |-> kind,
                                    at     |-> at,
                                    lib    |-> lib,
                                    key    |-> key,
                                    origin |-> origin,
                                    text   |-> text,
                                    first  |-> first,
                                    color  |-> color ]) ]

TokenLib(st, p_cfg, current_text, at) ==
    LET current_text_lower == Lower(current_text)
        current_stem == Stem(current_text_lower)
    IN  IF use_stemming
        THEN IF StemMatch(p_cfg, current_text_lower)
             THEN Emit(st, p_cfg, "word", at, current_stem,
                       MapGet(p_cfg.stem_map, current_stem), current_text,
                       current_text,
                       Truthy(MapGet(p_cfg.stem_map, current_stem)))
             ELSE st
        ELSE IF ExactMatch(p_cfg, current_text_lower)
             THEN Emit(st, p_cfg, "word", at, current_text_lower,
                       MapGet(p_cfg.exact_map, current_text_lower),
                       current_text, current_text,
                       Truthy(MapGet(p_cfg.exact_map, current_text_lower)))
             ELSE st

RECURSIVE TokenLibs(_, _, _, _)
TokenLibs(st, k, current_text, at) ==
    IF k > Len(processed_configs) THEN st
    ELSE TokenLibs(TokenLib(st, processed_configs[k], current_text, at),
                   k + 1, current_text, at)

(***************************************************************************)
(* The phrase loop of one page (App.py 395-415).                           *)
(***************************************************************************)
\* the surface string the index records for a phrase hit
PhraseSurface(phrase, literal) == phrase

RECURSIVE PhraseHits(_, _, _, _)
PhraseHits(st, p_cfg, phrase, hits) ==
    IF hits = << >> THEN st
    ELSE PhraseHits(
            Emit(st, p_cfg, "phrase", Head(hits), Lower(phrase), phrase,
                 PhraseSurface(phrase, HitText(page_words, phrase, Head(hits))),
                 HitText(page_words, phrase, Head(hits)), TRUE),
            p_cfg, phrase, Tail(hits))

RECURSIVE PhraseList(_, _, _)
PhraseList(st, p_cfg, phrases) ==
    IF phrases = << >> THEN st
    ELSE PhraseList(
            PhraseHits(st, p_cfg, Head(phrases),
                       SearchFor(page_words, Head(phrases))),
            p_cfg, Tail(phrases))

RECURSIVE PhraseLibs(_, _)
PhraseLibs(st, k) ==
    IF k > Len(processed_configs) THEN st
    ELSE PhraseLibs(PhraseList(st, processed_configs[k],
                               processed_configs[k].phrases), k + 1)

RunState == [seen |-> global_seen_items, index |-> index_data_by_lib,
             hl |-> highlights]

(***************************************************************************)
(* Index page layout (App.py 424-513). Python computes in floats; the      *)
(* model computes the same numbers exactly: a length along y is a number   *)
(* of quarter points (every y of the layout is a multiple of 0.25), the    *)
(* column width and every x are rationals [num, den] with den the column   *)
(* count. No quotient that int() truncates is a whole number or within     *)
(* rounding of one, so truncating the exact quotient gives int()'s result. *)
(***************************************************************************)
\* idx_page.rect of doc.new_page(): PyMuPDF's default page, A4 in points
page_width == 595

page_height == 842

margin_x == 40

margin_y == 50

col_gap == 15

title_y == 30

var_indent == 10

min_var_font_size == 6

min_truncation_limit == 5

Q(points) == 4 * points

\* Python's int(num / den) for den > 0: truncation toward zero
TruncInt(num, den) == IF num >= 0 THEN num \div den ELSE -((-num) \div den)

ColWidth(col_count) ==
    [num |-> page_width - 2 * margin_x - (col_count - 1) * col_gap,
     den |-> col_count]

\* idx_font_size * 1.5 and idx_font_size * 2.0, in quarter points
LineHeight(font_size) == 6 * font_size

HeaderHeight(font_size) == 8 * font_size

VarFontSize(font_size) ==
    IF font_size - 2 > min_var_font_size THEN font_size - 2
    ELSE min_var_font_size

\* int(col_width / (idx_font_size * 0.55)) - 2, then the clamp
TruncationLimit(cw, font_size) ==
    LET raw == TruncInt(20 * cw.num, 11 * cw.den * font_size) - 2
    IN  IF raw < min_truncation_limit THEN min_truncation_limit ELSE raw

\* int(col_width / (var_font_size * 0.55)) - 4
VarTruncationLimit(cw, font_size) ==
    TruncInt(20 * cw.num, 11 * cw.den * VarFontSize(font_size)) - 4

\* margin_x + current_col * (col_width + col_gap), over the denominator of cw
CurrentX(col, cw) ==
    [num |-> margin_x * cw.den + col * (cw.num + col_gap * cw.den),
     den |-> cw.den]

\* "current_col += 1; current_y = margin_y; if current_col >= col_count: new page"
Advance(cur, col_count, cw) ==
    LET c1 == cur.col + 1
        c2 == IF c1 >= col_count THEN 0 ELSE c1
    IN  [ col  |-> c2,
          y    |-> Q(margin_y),
          x    |-> CurrentX(c2, cw),
          page |-> IF c1 >= col_count THEN cur.page + 1 ELSE cur.page ]

Text(kind, cur, x, y) ==
    [kind |-> kind, page |-> cur.page, col |-> cur.col, x |-> x, y |-> y]

\* idx_page = doc.new_page() ... insert_text((margin_x, 30), "Index of Words")
LayoutStart ==
    [ cur    |-> [col |-> 0, y |-> Q(margin_y),
                  x |-> [num |-> 0, den |-> 1], page |-> 1],
      placed |-> << [kind |-> "title", page |-> 1, col |-> 0,
                     x |-> [num |-> margin_x, den |-> 1],
                     y |-> Q(title_y)] >> ]

\* the space a section header asks for (App.py 456)
NeededHeight(font_size) == HeaderHeight(font_size) + LineHeight(font_size)

\* the section header of one lexicon (App.py 456-467)
HeaderStep(cur, font_size, col_count, cw) ==
    LET c1 == IF cur.y + NeededHeight(font_size) > Q(page_height - margin_y)
              THEN Advance(cur, col_count, cw)
              ELSE cur
        c2 == [c1 EXCEPT !.x = CurrentX(c1.col, cw)]
    IN  [ cur    |-> [c2 EXCEPT !.y = @ + HeaderHeight(font_size)],
          placed |-> << Text("header", c2, c2.x, c2.y) >> ]

\* the variant lines of an entry, from y on (App.py 508-511)
VarTexts(cur, nvar, y, font_size) ==
    [k \in 1..nvar |->
        Text("variant", cur,
             [num |-> cur.x.num + var_indent * cur.x.den, den |-> cur.x.den],
             y + (k - 1) * LineHeight(font_size))]

\* one entry with nvar variant lines (App.py 490-511)
EntryStep(cur, nvar, font_size, col_count, cw) ==
    LET item_height == LineHeight(font_size) + nvar * LineHeight(font_size)
        c1 == IF cur.y + item_height > Q(page_height - margin_y)
              THEN Advance(cur, col_count, cw)
              ELSE cur
    IN  [ cur    |-> [c1 EXCEPT !.y = @ + item_height],
          placed |-> << Text("term", c1, c1.x, c1.y) >>
                     \o VarTexts(c1, nvar, c1.y + LineHeight(font_size),
                                 font_size) ]

\* "current_y += line_height / 2" after the entries of a lexicon (App.py 513)
SectionEnd(cur, font_size) == [cur EXCEPT !.y = @ + 3 * font_size]

(***************************************************************************)
(* The content of the index: sorted origins, displayed variants and their  *)
(* wrapped lines (App.py 451-453, 469-488).                                *)
(***************************************************************************)
\* sorted(list(words_dict.keys()), key=str.lower): a stable sort
RECURSIVE InsertByLower(_, _)
InsertByLower(sorted, e) ==
    IF sorted = << >> THEN << e >>
    ELSE IF StrLess(Lower(e.origin), Lower(Head(sorted).origin))
    THEN << e >> \o sorted
    ELSE << Head(sorted) >> \o InsertByLower(Tail(sorted), e)

RECURSIVE SortedOrigins(_)
SortedOrigins(entries) ==
    IF entries = << >> THEN << >>
    ELSE InsertByLower(SortedOrigins(SubSeq(entries, 1, Len(entries) - 1)),
                       entries[Len(entries)])

\* sorted(list(set(...))) of a set of strings
RECURSIVE SortedStrings(_)
SortedStrings(S) ==
    IF S = {} THEN << >>
    ELSE LET m == CHOOSE a \in S : \A b \in S \ {a} : StrLess(a, b)
         IN  << m >> \o SortedStrings(S \ {m})

DisplayVariations(entry) ==
    IF show_variants
    THEN SortedStrings({ v \in entry.variants : Lower(v) # Lower(entry.origin) })
    ELSE << >>

\* the loop "for i, var in enumerate(display_variations)", from position k on
RECURSIVE WrapFrom(_, _, _, _, _)
WrapFrom(variations, k, current_var_line, var_lines, limit) ==
    IF k > Len(variations)
    THEN Append(var_lines, current_var_line \o << ")" >>)
    ELSE LET var == variations[k]
             separator == IF k > 1 THEN << ",", " " >> ELSE << >>
         IN  IF Len(current_var_line \o separator \o var) > limit
             THEN WrapFrom(variations, k + 1, << " ", " " >> \o var,
                           Append(var_lines,
                                  IF k > 1 THEN current_var_line \o << "," >>
                                  ELSE current_var_line),
                           limit)
             ELSE WrapFrom(variations, k + 1,
                           current_var_line \o separator \o var, var_lines,
                           limit)

VarLines(variations, limit) ==
    IF variations = << >> THEN << >>
    ELSE WrapFrom(variations, 1, << "(" >>, << >>, limit)

(***************************************************************************)
(* Index generation of a run, as one pass (App.py 418-513).                *)
(***************************************************************************)
\* final_index_data: the lexicons of index_data_by_lib selected for the index
FinalIndexNames ==
    SelectSeq([k \in 1..Len(final_configs) |-> final_configs[k].name],
              LAMBDA n : n \in index_target_libs)

\* the guard of the index page
HasAnyWords_always(index) == TRUE

HasAnyWords(index) ==
    \E k \in 1..Len(FinalIndexNames) : Len(index[FinalIndexNames[k]]) > 0

RECURSIVE LayoutEntries(_, _, _, _, _)
LayoutEntries(lay, origins, font_size, col_count, cw) ==
    IF origins = << >> THEN lay
    ELSE LET lines == VarLines(DisplayVariations(Head(origins)),
                               VarTruncationLimit(cw, font_size))
             step  == EntryStep(lay.cur, Len(lines), font_size, col_count, cw)
         IN  LayoutEntries([cur |-> step.cur,
                            placed |-> lay.placed \o step.placed],
                           Tail(origins), font_size, col_count, cw)

LayoutSection(lay, entries, font_size, col_count, cw) ==
    LET h    == HeaderStep(lay.cur, font_size, col_count, cw)
        body == LayoutEntries([cur |-> h.cur, placed |-> lay.placed \o h.placed],
                              SortedOrigins(entries), font_size, col_count, cw)
    IN  [body EXCEPT !.cur = SectionEnd(@, font_size)]

RECURSIVE LayoutLibs(_, _, _, _, _, _)
LayoutLibs(lay, names, index, font_size, col_count, cw) ==
    IF names = << >> THEN lay
    ELSE LayoutLibs(IF index[Head(names)] = << >> THEN lay
                    ELSE LayoutSection(lay, index[Head(names)], font_size,
                                       col_count, cw),
                    Tail(names), index, font_size, col_count, cw)

LayoutIndex(index, font_size, col_count) ==
    LayoutLibs(LayoutStart, FinalIndexNames, index, font_size, col_count,
               ColWidth(col_count))

(***************************************************************************)
(* Inputs: the words of the documents and of the lexicons.                 *)
(***************************************************************************)
t_cat      == << "c","a","t" >>
t_Cat      == << "C","a","t" >>
t_scatter  == << "s","c","a","t","t","e","r" >>
t_run      == << "r","u","n" >>
t_runs     == << "r","u","n","s" >>
t_running  == << "r","u","n","n","i","n","g" >>
t_Running  == << "R","u","n","n","i","n","g" >>
t_deep     == << "d","e","e","p" >>
t_Deep     == << "D","e","e","p" >>
t_learning == << "l","e","a","r","n","i","n","g" >>
t_Learning == << "L","e","a","r","n","i","n","g" >>
ph_deep_learning == t_deep \o << " " >> \o t_learning

\* the word lists of lexicon A: trimmed, without duplicates, not empty
WordListsA ==
    { << t_cat >>,
      << t_run, t_running >>,
      << t_running, t_run >>,
      << t_Cat, ph_deep_learning >>,
      << ph_deep_learning, t_runs >> }

\* the word lists of lexicon B, when it is selected
WordListsB == { << t_cat, t_running >> }

\* the words of one page, as page.get_text("words") returns them
PageCatalogue ==
    { << >>,
      << t_Cat, t_scatter >>,
      << t_cat, t_cat >>,
      << t_Running, t_runs >>,
      << t_run, t_running >>,
      << t_Deep, t_Learning, t_cat >> }

MaxPages == 2

\* '#FFFF00', the default colour of a lexicon, and a colour picked for B
DefaultColor == hex_to_rgb(<< 255, 255, 0 >>)

PickedColor == hex_to_rgb(<< 0, 128, 255 >>)

LexiconConfigs ==
    { << [name |-> "A", words |-> a, rgb |-> DefaultColor] >> : a \in WordListsA }
    \cup
    { << [name |-> "A", words |-> a, rgb |-> DefaultColor],
         [name |-> "B", words |-> b, rgb |-> PickedColor] >> :
         a \in WordListsA, b \in WordListsB }

(***************************************************************************)
(* The state before the button is pressed.                                 *)
(***************************************************************************)
IdleRun ==
    /\ pc = "idle"
    /\ processed_configs = << >>
    /\ global_seen_items = EmptyMap
    /\ index_data_by_lib = EmptyMap
    /\ page_i = 0
    /\ page_words = << >>
    /\ w_idx = 1
    /\ highlights = << >>
    /\ doc_len = total_pages
    /\ processed_pdf_data = NoData

NoLayout ==
    /\ col_width = None
    /\ truncation_limit = None
    /\ var_truncation_limit = None
    /\ cursor = None
    /\ placed = << >>
    /\ section = None

\* the session state of a new session (App.py 33-41), nothing reported
FreshSession ==
    /\ processed_file_name = << >>
    /\ p_start = 1
    /\ p_end = 1
    /\ p_all = TRUE
    /\ error = None

\* the names of the documents a user uploads
FileNames == { << "a" >>, << "b" >> }

\* one uploaded document; no variant lines and no QuickApp run in progress
NoOther ==
    /\ uploaded_pdf = << "a" >>
    /\ entry_variations = << >>
    /\ entry_var_lines = << >>
    /\ total_stats = EmptyMap

\* the sidebar: App.py 179-210 (index settings), 31 (opacity), 244-264
Init ==
    /\ final_configs \in LexiconConfigs
    /\ use_stemming \in BOOLEAN
    /\ generate_index \in BOOLEAN
    /\ index_target_libs \in
          (IF generate_index THEN SUBSET {"A", "B"} ELSE { {} })
    /\ show_variants \in
          (IF generate_index /\ use_stemming THEN BOOLEAN ELSE {FALSE})
    /\ idx_col_count = (IF generate_index /\ show_variants THEN 2 ELSE 4)
    /\ idx_font_size = 10
    /\ repeat_opacity = 20
    /\ total_pages \in 1..MaxPages
    /\ IdleRun
    /\ NoLayout
    /\ FreshSession
    /\ NoOther

(***************************************************************************)
(* The run (App.py 289-545).                                               *)
(***************************************************************************)
\* the button: preprocessing and the registries (App.py 289-346)
StartRun ==
    /\ pc = "idle"
    /\ uploaded_pdf # None /\ final_configs # << >>
    /\ processed_configs' =
          [k \in 1..Len(final_configs) |->
              CompileLexicon(final_configs[k], use_stemming,
                             100 - repeat_opacity)]
    /\ global_seen_items' = [n \in LibNames |-> {}]
    /\ index_data_by_lib' = [n \in LibNames |-> << >>]
    /\ page_i' = 0
    /\ pc' = "page"
    /\ UNCHANGED << page_words, w_idx, highlights, doc_len,
                    processed_pdf_data >>
    /\ UNCHANGED configVars
    /\ UNCHANGED sessionVars
    /\ UNCHANGED otherVars
    /\ UNCHANGED layoutVars

\* the head of the core loop: the next page and its words (App.py 349-354)
NextPage ==
    /\ pc = "page"
    /\ page_i < total_pages
    /\ \E words \in PageCatalogue : page_words' = words
    /\ w_idx' = 1
    /\ pc' = "tokens"
    /\ UNCHANGED << processed_configs, global_seen_items, index_data_by_lib,
                    page_i, highlights, doc_len, processed_pdf_data >>
    /\ UNCHANGED configVars
    /\ UNCHANGED sessionVars
    /\ UNCHANGED otherVars
    /\ UNCHANGED layoutVars

\* one token against every lexicon (App.py 356-393)
MatchToken ==
    /\ pc = "tokens"
    /\ w_idx <= Len(page_words)
    /\ LET st == TokenLibs(RunState, 1, page_words[w_idx], w_idx)
       IN  /\ global_seen_items' = st.seen
           /\ index_data_by_lib' = st.index
           /\ highlights' = st.hl
    /\ w_idx' = w_idx + 1
    /\ UNCHANGED << pc, processed_configs, page_i, page_words, doc_len,
                    processed_pdf_data >>
    /\ UNCHANGED configVars
    /\ UNCHANGED sessionVars
    /\ UNCHANGED otherVars
    /\ UNCHANGED layoutVars

\* the phrases of every lexicon on the page, then on to the next page
\* (App.py 395-415)
MatchPhrases ==
    /\ pc = "tokens"
    /\ w_idx > Len(page_words)
    /\ LET st == PhraseLibs(RunState, 1)
       IN  /\ global_seen_items' = st.seen
           /\ index_data_by_lib' = st.index
           /\ highlights' = st.hl
    /\ page_i' = page_i + 1
    /\ pc' = "page"
    /\ UNCHANGED << processed_configs, page_words, w_idx, doc_len,
                    processed_pdf_data >>
    /\ UNCHANGED configVars
    /\ UNCHANGED sessionVars
    /\ UNCHANGED otherVars
    /\ UNCHANGED layoutVars

\* after the last page: the index pages (App.py 418-513)
GenerateIndex ==
    /\ pc = "page"
    /\ page_i = total_pages
    /\ IF generate_index /\ HasAnyWords(index_data_by_lib)
       THEN LET lay == LayoutIndex(index_data_by_lib, idx_font_size,
                                   idx_col_count)
            IN  /\ col_width' = ColWidth(idx_col_count)
                /\ truncation_limit' =
                      TruncationLimit(ColWidth(idx_col_count), idx_font_size)
                /\ var_truncation_limit' =
                      VarTruncationLimit(ColWidth(idx_col_count), idx_font_size)
                /\ cursor' = lay.cur
                /\ placed' = lay.placed
                /\ doc_len' = doc_len + lay.cur.page
                /\ UNCHANGED section
       ELSE UNCHANGED << doc_len, col_width, truncation_limit,
                         var_truncation_limit, cursor, placed, section >>
    /\ pc' = "save"
    /\ UNCHANGED << processed_configs, global_seen_items, index_data_by_lib,
                    page_i, page_words, w_idx, highlights,
                    processed_pdf_data >>
    /\ UNCHANGED configVars
    /\ UNCHANGED sessionVars
    /\ UNCHANGED otherVars

\* f"Highlight_{uploaded_pdf.name}" (App.py 523)
ResultName(name) == << "H","i","g","h","l","i","g","h","t","_" >> \o name

\* doc.save, the store of the result and the reset of the page range
\* (App.py 515-532)
SaveResult ==
    /\ pc = "save"
    /\ processed_pdf_data' = [pages |-> doc_len, annots |-> highlights]
    /\ processed_file_name' = ResultName(uploaded_pdf)
    /\ p_start' = 1
    /\ p_end' = doc_len
    /\ p_all' = TRUE
    /\ pc' = "done"
    /\ UNCHANGED << processed_configs, global_seen_items, index_data_by_lib,
                    page_i, page_words, w_idx, highlights, doc_len, error >>
    /\ UNCHANGED configVars
    /\ UNCHANGED otherVars
    /\ UNCHANGED layoutVars

Next ==
    \/ StartRun
    \/ NextPage
    \/ MatchToken
    \/ MatchPhrases
    \/ GenerateIndex
    \/ SaveResult

Spec == Init /\ [][Next]_vars

(***************************************************************************)
(* Properties of the run. They are stated on the configuration, the words  *)
(* of the page and the annotations, not on the compiled lexicons.          *)
(***************************************************************************)
Config(lib) ==
    final_configs[CHOOSE k \in 1..Len(final_configs) : final_configs[k].name = lib]

Compiled(lib) ==
    processed_configs[CHOOSE k \in 1..Len(processed_configs) :
                          processed_configs[k].name = lib]

\* the single-word terms of a lexicon, as authored
SingleTerms(lib) ==
    { Config(lib).words[k] : k \in { j \in 1..Len(Config(lib).words) :
                                       ~HasSpace(Config(lib).words[j]) } }

HL == { highlights[k] : k \in 1..Len(highlights) }

\* the token at position k of the current page has a highlight for lib
Highlighted(k, lib) ==
    \E h \in HL : h.kind = "word" /\ h.page = page_i /\ h.at = k /\ h.lib = lib

\* the positions of the current page the token loop has been through
Processed == IF pc = "tokens" THEN 1..(w_idx - 1) ELSE {}

PassOver == pc \in {"save", "done"}

\* C1: for every lexicon L and canonical key K, only the earliest highlight
\* of (L, K) takes the base colour branch and carries L's base colour; every
\* later highlight of (L, K) takes the light branch and carries L's light
\* colour, on whatever page it is.
C1_BaseColorOncePerKey ==
    \A a \in 1..Len(highlights) :
        LET h == highlights[a]
            earlier == { b \in 1..(a - 1) : /\ highlights[b].lib = h.lib
                                            /\ highlights[b].key = h.key }
        IN  /\ h.first <=> (earlier = {})
            /\ h.color = IF earlier = {} THEN Config(h.lib).rgb
                         ELSE Compiled(h.lib).light_color

C1_Witness ==
    \E a, b, c \in 1..Len(highlights) :
        /\ a < b /\ b < c
        /\ highlights[a].lib = highlights[b].lib
        /\ highlights[b].lib = highlights[c].lib
        /\ highlights[a].key = highlights[b].key
        /\ highlights[b].key = highlights[c].key
        /\ highlights[a].page < highlights[c].page
        /\ highlights[a].first /\ ~highlights[b].first /\ ~highlights[c].first

\* C2: with stemming off, a token T of the page is highlighted for a lexicon
\* exactly when the lexicon has a single-word term W with lower(T) =
\* lower(W), and then the highlight is the one of W; a token that only
\* contains W is not highlighted.
C2_ExactMatchIffEqualLower ==
    ~use_stemming =>
        \A k \in Processed : \A lib \in LibNames :
            /\ Highlighted(k, lib) <=>
                  \E W \in SingleTerms(lib) : Lower(page_words[k]) = Lower(W)
            /\ \A h \in HL :
                  (h.kind = "word" /\ h.page = page_i /\ h.at = k /\ h.lib = lib)
                  => /\ h.origin \in SingleTerms(lib)
                     /\ Lower(h.origin) = Lower(page_words[k])

C2_Witness ==
    /\ ~use_stemming
    /\ \E k1, k2 \in Processed : \E lib \in LibNames :
          /\ page_words[k1] = t_Cat /\ Highlighted(k1, lib)
          /\ page_words[k2] = t_scatter /\ ~Highlighted(k2, lib)
          /\ t_cat \in SingleTerms(lib)

\* C3: with stemming on, two tokens whose lowercased forms have the same
\* stem are both highlighted for every lexicon that has a single-word term
\* whose lowercased form has that stem.
C3_SameStemBothHighlighted ==
    use_stemming =>
        \A k1, k2 \in Processed : \A lib \in LibNames :
            ( /\ Stem(Lower(page_words[k1])) = Stem(Lower(page_words[k2]))
              /\ \E W \in SingleTerms(lib) :
                    Stem(Lower(W)) = Stem(Lower(page_words[k1])) )
            => Highlighted(k1, lib) /\ Highlighted(k2, lib)

C3_Witness ==
    /\ use_stemming
    /\ \E k1, k2 \in Processed : \E lib \in LibNames :
          /\ page_words[k1] # page_words[k2]
          /\ Lower(page_words[k1]) # Lower(page_words[k2])
          /\ Stem(Lower(page_words[k1])) = Stem(Lower(page_words[k2]))
          /\ \E W \in SingleTerms(lib) :
                Stem(Lower(W)) = Stem(Lower(page_words[k1]))
          /\ Highlighted(k1, lib) /\ Highlighted(k2, lib)

\* the entries of the index of a lexicon, and the literal texts of the
\* document that matched an origin term
IndexEntries(lib) ==
    { index_data_by_lib[lib][k] : k \in 1..Len(index_data_by_lib[lib]) }

SurfacesOf(lib, origin) ==
    { h.text : h \in { g \in HL : g.lib = lib /\ g.origin = origin } }

\* C4: after the pass over all pages, the variant set recorded for an origin
\* term is exactly the set of the literal texts (case preserved) of the
\* matches that resolved to it, no origin term is recorded twice, and an
\* origin term is a key of the index exactly when a match resolved to it.
C4_VariantsAreObservedSurfaces ==
    PassOver =>
        \A lib \in LibNames :
            /\ \A e \in IndexEntries(lib) :
                  e.variants = SurfacesOf(lib, e.origin)
            /\ \A k1, k2 \in 1..Len(index_data_by_lib[lib]) :
                  index_data_by_lib[lib][k1].origin =
                  index_data_by_lib[lib][k2].origin => k1 = k2
            /\ \A h \in HL :
                  h.lib = lib => \E e \in IndexEntries(lib) : e.origin = h.origin
            /\ \A e \in IndexEntries(lib) :
                  \E h \in HL : h.lib = lib /\ h.origin = e.origin

\* the single-word terms of a lexicon that reduce to a stem, by position
Colliding(lib, stem) ==
    { j \in 1..Len(Config(lib).words) :
        /\ ~HasSpace(Config(lib).words[j])
        /\ Stem(Lower(Config(lib).words[j])) = stem }

LastOf(S) == CHOOSE j \in S : \A m \in S : m <= j

\* C12: for every phrase occurrence found on a page, the literal text of
\* the occurrence, case preserved, is among the variants recorded in the
\* index entry of that phrase.
C12_PhraseVariantIsLiteralText ==
    \A h \in HL :
        h.kind = "phrase" =>
            \E e \in IndexEntries(h.lib) :
                e.origin = h.origin /\ h.text \in e.variants

\* the order of the matches of a run: pages ascending, on a page the
\* tokens in extraction order, then the phrase occurrences
KindRank(h) == IF h.kind = "word" THEN 0 ELSE 1

Before(g, h) ==
    \/ g.page < h.page
    \/ /\ g.page = h.page
       /\ \/ KindRank(g) < KindRank(h)
          \/ KindRank(g) = KindRank(h) /\ g.at < h.at

MatchesOf(lib, key) == { h \in HL : h.lib = lib /\ h.key = key }

\* C14: for every lexicon L and canonical key K with at least one match,
\* exactly one match of (L, K) has the base colour of L and it comes before
\* every other match of (L, K) in processing order (pages ascending, on a
\* page tokens in extraction order before phrase occurrences), whatever
\* the other lexicons matched.
C14_EarliestMatchGetsBaseColor ==
    \A lib \in LibNames :
        \A key \in { h.key : h \in { g \in HL : g.lib = lib } } :
            \E h \in MatchesOf(lib, key) :
                /\ h.first
                /\ h.color = Config(lib).rgb
                /\ \A g \in MatchesOf(lib, key) \ {h} :
                      Before(h, g) /\ ~g.first

\* two lexicons matched the same token, each gave it its own base colour,
\* and a later page has a repeat; a phrase occurrence follows the tokens of
\* its page
C14_Witness ==
    /\ \E h, g, r \in HL :
          /\ h.lib = "A" /\ g.lib = "B" /\ r.lib = "A"
          /\ h.key = g.key /\ h.page = g.page /\ h.at = g.at
          /\ h.kind = "word" /\ g.kind = "word"
          /\ h.first /\ g.first /\ h.color # g.color
          /\ r.key = h.key /\ r.page > h.page /\ ~r.first
    /\ \E w, ph \in HL :
          /\ w.kind = "word" /\ ph.kind = "phrase" /\ ph.first
          /\ w.page = ph.page /\ w.lib = ph.lib

\* C9: in stemming mode the stem-to-origin map holds, for every stem, the
\* term of that stem that comes last in the word list; every token matching
\* the stem is recorded in the index under that term, and no other term of
\* the stem is an origin term of the index.
C9_LastCollidingTermIsOrigin ==
    (use_stemming /\ pc # "idle") =>
        \A lib \in LibNames :
            /\ \A s \in DOMAIN Compiled(lib).stem_map :
                  /\ Colliding(lib, s) # {}
                  /\ Compiled(lib).stem_map[s] =
                        Config(lib).words[LastOf(Colliding(lib, s))]
            /\ \A h \in HL :
                  (h.lib = lib /\ h.kind = "word") =>
                     /\ h.origin = Config(lib).words[LastOf(Colliding(lib, h.key))]
                     /\ \E e \in IndexEntries(lib) :
                           e.origin = h.origin /\ h.text \in e.variants
            /\ \A e \in IndexEntries(lib) :
                  ~HasSpace(e.origin) =>
                     \E j \in 1..Len(Config(lib).words) :
                        /\ Config(lib).words[j] = e.origin
                        /\ j = LastOf(Colliding(lib, Stem(Lower(e.origin))))

C9_Witness ==
    /\ use_stemming
    /\ \E lib \in LibNames : \E h \in HL :
          /\ h.lib = lib /\ h.kind = "word"
          /\ Cardinality(Colliding(lib, h.key)) >= 2
          /\ Config(lib).words[1] = t_run
          /\ h.origin = t_running
          /\ \E e \in IndexEntries(lib) : e.origin = t_running
          /\ \A e \in IndexEntries(lib) : e.origin # t_run

\* C10: when index generation is on and no lexicon selected for the index
\* has a match, no page is appended: the document and the stored result
\* have the page count of the input.
C10_NoIndexPageWithoutMatches ==
    ( /\ generate_index
      /\ PassOver
      /\ \A h \in HL : h.lib \notin index_target_libs )
    => /\ doc_len = total_pages
       /\ pc = "done" => processed_pdf_data.pages = total_pages

C10_Witness ==
    /\ generate_index
    /\ pc = "done"
    /\ index_target_libs # {}
    /\ HL # {}
    /\ \A h \in HL : h.lib \notin index_target_libs
    /\ processed_pdf_data.pages = total_pages

(***************************************************************************)
(* The light colour as a function of the base colour and the opacity: the  *)
(* preprocessing of a run over a grid of colours and opacities.            *)
(***************************************************************************)
ChannelLevels == 5

OpacityLevels == 4

\* bytes of the colour picker, spread over 0..255
ChannelBytes == { (255 * k) \div ChannelLevels : k \in 0..ChannelLevels }

\* opacities of the number input and slider (0.00 to 1.00), in hundredths
Opacities == { (100 * k) \div OpacityLevels : k \in 0..OpacityLevels }

InitColor ==
    /\ \E r, g, b \in ChannelBytes :
          final_configs = << [name |-> "A", words |-> << t_cat >>,
                              rgb |-> hex_to_rgb(<< r, g, b >>)] >>
    /\ repeat_opacity \in Opacities
    /\ use_stemming = TRUE
    /\ generate_index = FALSE
    /\ index_target_libs = {}
    /\ show_variants = FALSE
    /\ idx_col_count = 4
    /\ idx_font_size = 10
    /\ total_pages = 1
    /\ IdleRun
    /\ NoLayout
    /\ FreshSession
    /\ NoOther

NextColor == StartRun

SpecColor == InitColor /\ [][NextColor]_vars

White == << ColorDen, ColorDen, ColorDen >>

\* C7: the light colour of a lexicon, computed with factor 1 - opacity, is
\* the base colour when the factor is 0, is (1, 1, 1) when the factor is 1,
\* and for every factor has each channel within [0, 1] and not below the
\* base channel.
C7_LightColorBlend ==
    pc # "idle" =>
        \A lib \in LibNames :
            LET base  == Config(lib).rgb
                light == Compiled(lib).light_color
            IN  /\ Compiled(lib).base_color = base
                /\ repeat_opacity = 100 => light = base
                /\ repeat_opacity = 0 => light = White
                /\ \A c \in 1..3 :
                      /\ 0 <= light[c] /\ light[c] <= ColorDen
                      /\ base[c] <= light[c]
                      /\ light[c] * 100 =
                            base[c] * 100
                            + (ColorDen - base[c]) * (100 - repeat_opacity)

C7_Witness ==
    /\ pc # "idle"
    /\ repeat_opacity \notin {0, 100}
    /\ \E lib \in LibNames :
          /\ Config(lib).rgb \notin { White, << 0, 0, 0 >> }
          /\ Compiled(lib).light_color # Config(lib).rgb
          /\ Compiled(lib).light_color # White

C7_WitnessFactorZero ==
    /\ pc # "idle" /\ repeat_opacity = 100
    /\ \E lib \in LibNames :
          Config(lib).rgb # White /\ Compiled(lib).light_color = Config(lib).rgb

C7_WitnessFactorOne ==
    /\ pc # "idle" /\ repeat_opacity = 0
    /\ \E lib \in LibNames :
          Config(lib).rgb # White /\ Compiled(lib).light_color = White

(***************************************************************************)
(* The index layout step by step. The run has reached the index generation *)
(* with has_any_words; the aggregated content is read once, front to back, *)
(* so each step draws the next piece of it: whether a section follows, the *)
(* number of variant lines of the next entry, whether the entry is the     *)
(* last of its section.                                                    *)
(***************************************************************************)
MaxSections == 2

MaxIndexPages == 2

MaxVarLines == 34

\* the numbers of variant lines an entry is drawn with
VarLineChoices == {0, 1, 2, MaxVarLines}

\* st.selectbox("排版列数", [1, 2, 3, 4]) and the bounds of the font size input
ColCountChoices == {1, 2, 3, 4}

FontSizeChoices == 8..16

AtLayoutStart ==
    /\ final_configs = << [name |-> "A", words |-> << t_cat >>,
                           rgb |-> DefaultColor] >>
    /\ use_stemming = show_variants
    /\ generate_index = TRUE
    /\ index_target_libs = {"A"}
    /\ repeat_opacity = 20
    /\ total_pages = 1
    /\ pc = "layout_start"
    /\ processed_configs = << >>
    /\ global_seen_items = EmptyMap
    /\ index_data_by_lib = EmptyMap
    /\ page_i = total_pages
    /\ page_words = << >>
    /\ w_idx = 1
    /\ highlights = << >>
    /\ doc_len = total_pages
    /\ processed_pdf_data = NoData
    /\ NoLayout
    /\ FreshSession
    /\ NoOther

InitLayout ==
    /\ show_variants \in BOOLEAN
    /\ idx_col_count \in ColCountChoices
    /\ idx_font_size \in FontSizeChoices
    /\ AtLayoutStart

\* the first index page, the metrics and the title (App.py 424-449)
LayoutBegin ==
    /\ pc = "layout_start"
    /\ col_width' = ColWidth(idx_col_count)
    /\ truncation_limit' =
          TruncationLimit(ColWidth(idx_col_count), idx_font_size)
    /\ var_truncation_limit' =
          VarTruncationLimit(ColWidth(idx_col_count), idx_font_size)
    /\ cursor' = LayoutStart.cur
    /\ placed' = LayoutStart.placed
    /\ section' = [n |-> 0, open |-> FALSE, entries |-> 0, header |-> None]
    /\ doc_len' = doc_len + 1
    /\ pc' = "layout"
    /\ UNCHANGED << processed_configs, global_seen_items, index_data_by_lib,
                    page_i, page_words, w_idx, highlights,
                    processed_pdf_data >>
    /\ UNCHANGED configVars
    /\ UNCHANGED sessionVars
    /\ UNCHANGED otherVars

\* the header of the next lexicon with matched terms (App.py 451-467)
LayoutHeader ==
    /\ pc = "layout"
    /\ ~section.open
    /\ section.n < MaxSections
    /\ cursor.page <= MaxIndexPages
    /\ LET h == HeaderStep(cursor, idx_font_size, idx_col_count, col_width)
       IN  /\ cursor' = h.cur
           /\ placed' = h.placed
           /\ section' = [n |-> section.n + 1, open |-> TRUE, entries |-> 0,
                          header |-> h.placed[1]]
           /\ doc_len' = doc_len + (h.cur.page - cursor.page)
    /\ UNCHANGED << pc, processed_configs, global_seen_items,
                    index_data_by_lib, page_i, page_words, w_idx, highlights,
                    processed_pdf_data, col_width, truncation_limit,
                    var_truncation_limit >>
    /\ UNCHANGED configVars
    /\ UNCHANGED sessionVars
    /\ UNCHANGED otherVars

\* the next entry of the section (App.py 469-513)
LayoutEntry ==
    /\ pc = "layout"
    /\ section.open
    /\ cursor.page <= MaxIndexPages
    /\ \E nvar \in (IF show_variants THEN VarLineChoices ELSE {0}) :
       \E last \in BOOLEAN :
          LET e == EntryStep(cursor, nvar, idx_font_size, idx_col_count,
                             col_width)
          IN  /\ cursor' = IF last THEN SectionEnd(e.cur, idx_font_size)
                           ELSE e.cur
              /\ placed' = e.placed
              /\ section' = [section EXCEPT
                                !.entries = IF @ < 2 THEN @ + 1 ELSE @,
                                !.open = ~last,
                                !.header = IF section.entries = 0 THEN @
                                           ELSE None]
              /\ doc_len' = doc_len + (e.cur.page - cursor.page)
    /\ UNCHANGED << pc, processed_configs, global_seen_items,
                    index_data_by_lib, page_i, page_words, w_idx, highlights,
                    processed_pdf_data, col_width, truncation_limit,
                    var_truncation_limit >>
    /\ UNCHANGED configVars
    /\ UNCHANGED sessionVars
    /\ UNCHANGED otherVars

NextLayout ==
    \/ LayoutBegin
    \/ LayoutHeader
    \/ LayoutEntry

SpecLayout == InitLayout /\ [][NextLayout]_vars

\* a text position within the margins of the page, in both axes
WithinMargins(t) ==
    /\ margin_x * t.x.den <= t.x.num
    /\ t.x.num <= (page_width - margin_x) * t.x.den
    /\ Q(margin_y) <= t.y
    /\ t.y <= Q(page_height - margin_y)

\* C5: every text the index layout places (page title, section headers,
\* term lines, variant lines) has x within [margin_x, page_width - margin_x]
\* and y within [margin_y, page_height - margin_y].
C5_TextWithinMargins ==
    \A k \in 1..Len(placed) : WithinMargins(placed[k])

\* C6: the term line of the first entry of a section is placed below the
\* section header, in the same column of the same page.
C6_HeaderKeepsFirstEntry ==
    ( /\ pc = "layout"
      /\ section.entries = 1
      /\ placed # << >>
      /\ placed[1].kind = "term" )
    => /\ placed[1].page = section.header.page
       /\ placed[1].col = section.header.col
       /\ placed[1].y > section.header.y

(***************************************************************************)
(* The metrics of the layout over every positive column count and font     *)
(* size up to a bound, beyond what the widgets of the sidebar offer.       *)
(***************************************************************************)
MaxColCount == 40

MaxFontSize == 50

InitLimits ==
    /\ show_variants = FALSE
    /\ idx_col_count \in 1..MaxColCount
    /\ idx_font_size \in 1..MaxFontSize
    /\ AtLayoutStart

NextLimits == LayoutBegin

SpecLimits == InitLimits /\ [][NextLimits]_vars

AtRest == pc \in {"idle", "done", "error"}

\* the script starts again from the top with a document of n pages
ScriptRerun(n) ==
    /\ pc' = "idle"
    /\ processed_configs' = << >>
    /\ global_seen_items' = EmptyMap
    /\ index_data_by_lib' = EmptyMap
    /\ page_i' = 0
    /\ page_words' = << >>
    /\ w_idx' = 1
    /\ highlights' = << >>
    /\ doc_len' = n
    /\ col_width' = None
    /\ truncation_limit' = None
    /\ var_truncation_limit' = None
    /\ cursor' = None
    /\ placed' = << >>
    /\ section' = None

\* the lexicons a user loads in the session: exact mode, index of lexicon A
SessionConfigs ==
    { << [name |-> "A", words |-> << t_runs >>, rgb |-> DefaultColor] >> }

\* st.file_uploader of the document (App.py 82): another document
Upload ==
    /\ AtRest
    /\ uploaded_pdf' \in FileNames
    /\ total_pages' \in 1..MaxPages
    /\ ScriptRerun(total_pages')
    /\ error' = None
    /\ UNCHANGED << final_configs, use_stemming, generate_index,
                    index_target_libs, show_variants, idx_col_count,
                    idx_font_size, repeat_opacity >>
    /\ UNCHANGED << processed_pdf_data, processed_file_name, p_start, p_end,
                    p_all >>
    /\ UNCHANGED << entry_variations, entry_var_lines, total_stats >>

\* st.file_uploader of the document (App.py 82): the document is removed
RemoveUpload ==
    /\ AtRest
    /\ uploaded_pdf # None
    /\ uploaded_pdf' = None
    /\ ScriptRerun(total_pages)
    /\ error' = None
    /\ UNCHANGED configVars
    /\ UNCHANGED << processed_pdf_data, processed_file_name, p_start, p_end,
                    p_all >>
    /\ UNCHANGED << entry_variations, entry_var_lines, total_stats >>

\* the lexicon files and the two multiselects (App.py 89-101, 203-209,
\* 244-264)
LoadLibraries ==
    /\ AtRest
    /\ final_configs = << >>
    /\ final_configs' \in SessionConfigs
    /\ index_target_libs' \in SUBSET {"A"}
    /\ ScriptRerun(total_pages)
    /\ error' = None
    /\ UNCHANGED << use_stemming, generate_index, show_variants,
                    idx_col_count, idx_font_size, repeat_opacity,
                    total_pages >>
    /\ UNCHANGED << processed_pdf_data, processed_file_name, p_start, p_end,
                    p_all >>
    /\ UNCHANGED otherVars

\* the cache button (App.py 268-275): no lexicon is left to select
ClearCache ==
    /\ AtRest
    /\ final_configs' = << >>
    /\ index_target_libs' = {}
    /\ processed_pdf_data' = NoData
    /\ p_start' = 1
    /\ p_end' = 1
    /\ p_all' = TRUE
    /\ ScriptRerun(total_pages)
    /\ error' = None
    /\ UNCHANGED << use_stemming, generate_index, show_variants,
                    idx_col_count, idx_font_size, repeat_opacity,
                    total_pages >>
    /\ UNCHANGED processed_file_name
    /\ UNCHANGED otherVars

\* the button without a document or without a lexicon (App.py 544-545)
RejectRun ==
    /\ AtRest
    /\ uploaded_pdf = None \/ final_configs = << >>
    /\ ScriptRerun(total_pages)
    /\ error' = "config"
    /\ UNCHANGED configVars
    /\ UNCHANGED << processed_pdf_data, processed_file_name, p_start, p_end,
                    p_all >>
    /\ UNCHANGED otherVars

\* what the except branch leaves in the session state for the result
KeepResult_storing ==
    /\ processed_pdf_data' = [pages |-> doc_len, annots |-> highlights]
    /\ processed_file_name' = ResultName(uploaded_pdf)

KeepResult ==
    /\ processed_pdf_data' = processed_pdf_data
    /\ processed_file_name' = processed_file_name

\* an exception in the page loop or at the save: the except branch
\* (App.py 541-542) reports it and the script goes on to the result area
FailRun ==
    /\ pc \in {"page", "tokens", "save"}
    /\ error' = "error"
    /\ pc' = "error"
    /\ KeepResult
    /\ UNCHANGED << processed_configs, global_seen_items, index_data_by_lib,
                    page_i, page_words, w_idx, highlights, doc_len >>
    /\ UNCHANGED << p_start, p_end, p_all >>
    /\ UNCHANGED configVars
    /\ UNCHANGED layoutVars
    /\ UNCHANGED otherVars

\* an exception in the index layout, after doc.new_page() (App.py 424-513)
FailLayout ==
    /\ pc = "page"
    /\ page_i = total_pages
    /\ generate_index /\ HasAnyWords(index_data_by_lib)
    /\ doc_len' = doc_len + 1
    /\ error' = "error"
    /\ pc' = "error"
    /\ KeepResult
    /\ UNCHANGED << processed_configs, global_seen_items, index_data_by_lib,
                    page_i, page_words, w_idx, highlights >>
    /\ UNCHANGED << p_start, p_end, p_all >>
    /\ UNCHANGED configVars
    /\ UNCHANGED layoutVars
    /\ UNCHANGED otherVars

\* the callbacks of the result area (App.py 557-567), as the values they
\* leave in p_start, p_end and p_all
on_toggle_all(all, start, end, total_result_pages) ==
    IF all THEN [p_start |-> 1, p_end |-> total_result_pages]
    ELSE [p_start |-> start, p_end |-> end]

on_page_change(start, end, total_result_pages) ==
    start = 1 /\ end = total_result_pages

\* len(doc_result) of the stored result (App.py 552-553)
total_result_pages == processed_pdf_data.pages

\* the checkbox of key 'p_all' (App.py 575)
ToggleAll ==
    /\ AtRest
    /\ processed_pdf_data # NoData
    /\ p_all' = ~p_all
    /\ LET range == on_toggle_all(p_all', p_start, p_end, total_result_pages)
       IN  /\ p_start' = range.p_start
           /\ p_end' = range.p_end
    /\ ScriptRerun(total_pages)
    /\ error' = None
    /\ UNCHANGED configVars
    /\ UNCHANGED << processed_pdf_data, processed_file_name >>
    /\ UNCHANGED otherVars

\* the number input of key 'p_start': 1 to the page count (App.py 582-590)
EditStart ==
    /\ AtRest
    /\ processed_pdf_data # NoData
    /\ p_start' \in (1..total_result_pages) \ {p_start}
    /\ p_all' = on_page_change(p_start', p_end, total_result_pages)
    /\ ScriptRerun(total_pages)
    /\ error' = None
    /\ UNCHANGED configVars
    /\ UNCHANGED << processed_pdf_data, processed_file_name, p_end >>
    /\ UNCHANGED otherVars

\* the number input of key 'p_end': p_start to the page count
\* (App.py 591-599)
EditEnd ==
    /\ AtRest
    /\ processed_pdf_data # NoData
    /\ p_end' \in (p_start..total_result_pages) \ {p_end}
    /\ p_all' = on_page_change(p_start, p_end', total_result_pages)
    /\ ScriptRerun(total_pages)
    /\ error' = None
    /\ UNCHANGED configVars
    /\ UNCHANGED << processed_pdf_data, processed_file_name, p_start >>
    /\ UNCHANGED otherVars

\* a new session with one document and the lexicon loaded
InitSession ==
    /\ final_configs \in SessionConfigs
    /\ use_stemming = FALSE
    /\ generate_index = TRUE
    /\ index_target_libs \in SUBSET {"A"}
    /\ show_variants = FALSE
    /\ idx_col_count = 4
    /\ idx_font_size = 10
    /\ repeat_opacity = 20
    /\ total_pages \in 1..MaxPages
    /\ IdleRun
    /\ NoLayout
    /\ FreshSession
    /\ NoOther

NextSession ==
    \/ Upload
    \/ RemoveUpload
    \/ LoadLibraries
    \/ ClearCache
    \/ RejectRun
    \/ StartRun
    \/ NextPage
    \/ MatchToken
    \/ MatchPhrases
    \/ GenerateIndex
    \/ SaveResult
    \/ FailRun
    \/ FailLayout
    \/ ToggleAll
    \/ EditStart
    \/ EditEnd

SpecSession == InitSession /\ [][NextSession]_vars

\* the stored result
StoredResult == << processed_pdf_data, processed_file_name >>

\* C11: a step in which a run fails reports an error and leaves the stored
\* result (processed_pdf_data, processed_file_name) as it was, no step of a
\* run before its last one changes the stored result, so that at a failure
\* it is what it was when the run started, and the only step of a run that
\* replaces it is the one after the pass over all pages and the save, which
\* stores the document with the annotations of the whole pass.
C11_FailedRunKeepsStoredResult ==
    [][ /\ (pc # "error" /\ pc' = "error")
           => /\ error' = "error"
              /\ StoredResult' = StoredResult
        /\ (~AtRest /\ StoredResult' # StoredResult)
           => /\ pc = "save" /\ pc' = "done" /\ error' = None
              /\ page_i = total_pages
              /\ processed_pdf_data' =
                    [pages |-> doc_len, annots |-> highlights]
              /\ processed_file_name' = ResultName(uploaded_pdf) ]_vars

\* a run failed in the page loop with annotations already added, while the
\* result of an earlier run on another document stays stored
C11_Witness ==
    /\ pc = "error" /\ error = "error"
    /\ page_i < total_pages
    /\ highlights # << >>
    /\ processed_pdf_data # NoData
    /\ processed_pdf_data.annots # highlights
    /\ processed_file_name # ResultName(uploaded_pdf)

\* C16: whenever a processed result is stored, 1 <= p_start <= p_end <= the
\* page count of the stored result, and p_all implies that the range is
\* the whole result, after any runs, cache clears, page edits and toggles.
C16_PageRangeWithinResult ==
    processed_pdf_data # NoData =>
        /\ 1 <= p_start
        /\ p_start <= p_end
        /\ p_end <= total_result_pages
        /\ p_all => (p_start = 1 /\ p_end = total_result_pages)

(***************************************************************************)
(* QuickApp.py: the run of the fast variant (QuickApp.py 133-216). Every   *)
(* word of every selected lexicon, single word or phrase, is searched on   *)
(* the page with page.search_for; there is no token loop, no registry of   *)
(* seen keys and no index.                                                 *)
(***************************************************************************)
\* "for quad in quads" (QuickApp.py 173-178)
RECURSIVE QuickHits(_, _, _, _, _)
QuickHits(st, config, word, words, hits) ==
    IF hits = << >> THEN st
    ELSE QuickHits(
            [ hl    |-> Append(st.hl, [ page  |-> page_i,
                                        lib   |-> config.name,
                                        word  |-> word,
                                        at    |-> Head(hits),
                                        text  |-> HitText(words, word, Head(hits)),
                                        color |-> config.rgb ]),
              stats |-> [st.stats EXCEPT ![config.name] = @ + 1] ],
            config, word, words, Tail(hits))

\* "for word in target_words" (QuickApp.py 168-171)
RECURSIVE QuickWords(_, _, _, _)
QuickWords(st, config, target_words, words) ==
    IF target_words = << >> THEN st
    ELSE QuickWords(
            QuickHits(st, config, Head(target_words), words,
                      SearchFor(words, Head(target_words))),
            config, Tail(target_words), words)

\* "for lib_name, config in active_configs" (QuickApp.py 164-166)
RECURSIVE QuickLibs(_, _, _)
QuickLibs(st, k, words) ==
    IF k > Len(final_configs) THEN st
    ELSE QuickLibs(QuickWords(st, final_configs[k], final_configs[k].words,
                              words),
                   k + 1, words)

\* the button: the document is opened, the counters start at zero
\* (QuickApp.py 133-153)
QuickStart ==
    /\ pc = "idle"
    /\ uploaded_pdf # None /\ final_configs # << >>
    /\ total_stats' = [n \in LibNames |-> 0]
    /\ page_i' = 0
    /\ pc' = "quick_page"
    /\ UNCHANGED << processed_configs, global_seen_items, index_data_by_lib,
                    page_words, w_idx, highlights, doc_len,
                    processed_pdf_data >>
    /\ UNCHANGED << uploaded_pdf, entry_variations, entry_var_lines >>
    /\ UNCHANGED configVars
    /\ UNCHANGED sessionVars
    /\ UNCHANGED layoutVars

\* one page of "for i, page in enumerate(doc)" (QuickApp.py 155-178)
QuickPage ==
    /\ pc = "quick_page"
    /\ page_i < total_pages
    /\ \E words \in PageCatalogue :
          LET st == QuickLibs([hl |-> highlights, stats |-> total_stats], 1,
                              words)
          IN  /\ page_words' = words
              /\ highlights' = st.hl
              /\ total_stats' = st.stats
    /\ page_i' = page_i + 1
    /\ UNCHANGED << pc, processed_configs, global_seen_items,
                    index_data_by_lib, w_idx, doc_len, processed_pdf_data >>
    /\ UNCHANGED << uploaded_pdf, entry_variations, entry_var_lines >>
    /\ UNCHANGED configVars
    /\ UNCHANGED sessionVars
    /\ UNCHANGED layoutVars

\* doc.save, the counters and the download button (QuickApp.py 180-213)
QuickSave ==
    /\ pc = "quick_page"
    /\ page_i = total_pages
    /\ pc' = "done"
    /\ UNCHANGED << processed_configs, global_seen_items, index_data_by_lib,
                    page_i, page_words, w_idx, highlights, doc_len,
                    processed_pdf_data >>
    /\ UNCHANGED configVars
    /\ UNCHANGED sessionVars
    /\ UNCHANGED layoutVars
    /\ UNCHANGED otherVars

\* the except branch (QuickApp.py 215-216)
QuickFail ==
    /\ pc = "quick_page"
    /\ error' = "error"
    /\ pc' = "error"
    /\ UNCHANGED << processed_configs, global_seen_items, index_data_by_lib,
                    page_i, page_words, w_idx, highlights, doc_len,
                    processed_pdf_data >>
    /\ UNCHANGED << processed_file_name, p_start, p_end, p_all >>
    /\ UNCHANGED configVars
    /\ UNCHANGED layoutVars
    /\ UNCHANGED otherVars

\* QuickApp has the lexicons and the document, none of App.py's options
InitQuick ==
    /\ final_configs \in LexiconConfigs
    /\ use_stemming = FALSE
    /\ generate_index = FALSE
    /\ index_target_libs = {}
    /\ show_variants = FALSE
    /\ idx_col_count = 4
    /\ idx_font_size = 10
    /\ repeat_opacity = 20
    /\ total_pages \in 1..MaxPages
    /\ IdleRun
    /\ NoLayout
    /\ FreshSession
    /\ NoOther

NextQuick ==
    \/ QuickStart
    \/ QuickPage
    \/ QuickSave
    \/ QuickFail

SpecQuick == InitQuick /\ [][NextQuick]_vars

\* the word of the page in which the character at offset p of the page
\* text lies
RECURSIVE WordAt(_, _)
WordAt(words, p) ==
    IF p <= Len(words[1]) THEN words[1]
    ELSE WordAt(Tail(words), p - Len(words[1]) - 1)

\* C13: in QuickApp a highlight of a single-word term W lies on a word of
\* the page that equals W case-insensitively; a longer word that contains W
\* gets no highlight for W.
C13_QuickSingleWordOnlyEqualWords ==
    \A k \in 1..Len(highlights) :
        LET h == highlights[k]
        IN  (pc # "idle" /\ h.page = page_i - 1 /\ ~HasSpace(h.word))
            => Lower(WordAt(page_words, h.at)) = Lower(h.word)

(***************************************************************************)
(* The variant lines of an index entry (App.py 469-488), for the column    *)
(* counts and font sizes of the sidebar and for variants as the stemmer    *)
(* groups them.                                                            *)
(***************************************************************************)
t_understanding == << "u","n","d","e","r","s","t","a","n","d","i","n","g" >>

t_understandings == t_understanding \o << "s" >>

\* surface forms a document shows for the terms 'run' and 'understand'
VariantPool ==
    { t_Running, t_running, t_runs, t_understanding, t_understandings }

\* sorted(list(set(display_variations))) of a non-empty set of variants
VariationLists == { SortedStrings(S) : S \in (SUBSET VariantPool) \ { {} } }

InitWrap ==
    /\ show_variants = TRUE
    /\ idx_col_count \in ColCountChoices
    /\ idx_font_size \in FontSizeChoices
    /\ AtLayoutStart

\* the variant lines of one entry (App.py 469-488)
WrapEntry ==
    /\ pc = "layout"
    /\ \E variations \in VariationLists :
          /\ entry_variations' = variations
          /\ entry_var_lines' = VarLines(variations, var_truncation_limit)
    /\ UNCHANGED runVars
    /\ UNCHANGED configVars
    /\ UNCHANGED sessionVars
    /\ UNCHANGED layoutVars
    /\ UNCHANGED << uploaded_pdf, total_stats >>

NextWrap ==
    \/ LayoutBegin
    \/ WrapEntry

SpecWrap == InitWrap /\ [][NextWrap]_vars

\* the variants a sequence of lines lists: what is between the parentheses,
\* commas and blanks, in order
RECURSIVE ListedIn(_, _, _)
ListedIn(chars, current, listed) ==
    LET done == IF current = << >> THEN listed ELSE Append(listed, current)
    IN  IF chars = << >> THEN done
        ELSE IF Head(chars) \in {"(", ")", ",", " "}
        THEN ListedIn(Tail(chars), << >>, done)
        ELSE ListedIn(Tail(chars), Append(current, Head(chars)), listed)

RECURSIVE JoinLines(_)
JoinLines(lines) ==
    IF lines = << >> THEN << >>
    ELSE Head(lines) \o << " " >> \o JoinLines(Tail(lines))

\* C15: for an entry with variants, every variant line is at most
\* var_truncation_limit characters long, the lines together list each
\* displayed variant exactly once, the first line opens with "(", the last
\* line closes with ")", and no line is the opening parenthesis alone.
C15_VariantLinesWithinLimit ==
    (pc = "layout" /\ entry_variations # << >>) =>
        /\ \A k \in 1..Len(entry_var_lines) :
              /\ Len(entry_var_lines[k]) <= var_truncation_limit
              /\ entry_var_lines[k] # << "(" >>
        /\ ListedIn(JoinLines(entry_var_lines), << >>, << >>) = entry_variations
        /\ entry_var_lines # << >>
        /\ Head(entry_var_lines[1]) = "("
        /\ LET last == entry_var_lines[Len(entry_var_lines)]
           IN  last[Len(last)] = ")"

====
